---------------------------- MODULE Spec2Model ----------------------------
(***************************************************************************)
(* The chat exchange of app.py: the Streamlit chat handler appends the     *)
(* user's message to st.session_state.chat_history, streams the one-node   *)
(* LangGraph workflow (call_model) in "messages" mode, concatenates the    *)
(* streamed AI chunks into full_response and appends it as an AIMessage.   *)
(*                                                                         *)
(* A message is a record [role, content]; content is a sequence of         *)
(* one-character strings, so that len(), + and f-string formatting are     *)
(* computed on the text itself.                                            *)
(***************************************************************************)
EXTENDS Naturals, Sequences, FiniteSets, TLC

VARIABLES
    chat_history,     \* st.session_state.chat_history
    ids,              \* ids[i]: whether chat_history[i].id has been assigned (not None)
    dedupe_inputs,    \* the installed langgraph records the ids of a node's input messages as seen
    pc,               \* position of the chat handler: "idle", "streaming", "crashed"
    full_response,    \* the handler's accumulator
    shown,            \* every string handed to placeholder.write, in order
    stream,           \* chunks emitted by the graph, not yet taken by the for loop
    emitted,          \* every chunk the graph has emitted during this exchange, in order
    phase,            \* position of call_model in this invocation
    state_messages,   \* state["messages"]
    messages,         \* call_model's local `messages`
    trimmed,          \* call_model's local `trimmed`
    prompt_messages,  \* the argument of model.invoke, once it has been called
    invocations,      \* calls of model.invoke in this invocation of call_model
    chunks,           \* the contents of the token chunks the model has streamed in this call
    exc,              \* <<>> or <<e>>: the exception caught by call_model's except clause
    returned          \* <<>> or <<list>>: the value call_model returned

vars == << chat_history, ids, dedupe_inputs, pc, full_response, shown, stream,
           emitted, phase, state_messages, messages, trimmed, prompt_messages,
           invocations, chunks, exc, returned >>

-----------------------------------------------------------------------------
(* Bounds of the model *)

\* chat submissions in one session
MaxTurns == 2
\* token chunks the remote model streams in one call
MaxFragments == 2
\* length of a history handed directly to the graph
MaxHist == 2

-----------------------------------------------------------------------------
(* Text *)

Rep(c, n) == [i \in 1 .. n |-> c]

RECURSIVE Concat(_)
Concat(ss) == IF ss = <<>> THEN <<>> ELSE Head(ss) \o Concat(Tail(ss))

IsPrefix(s, t) == Len(s) <= Len(t) /\ SubSeq(t, 1, Len(s)) = s

IsSuffix(s, t) == Len(s) <= Len(t) /\ SubSeq(t, Len(t) - Len(s) + 1, Len(t)) = s

Contains(t, s) == \E i \in 0 .. (Len(t) - Len(s)) : SubSeq(t, i + 1, i + Len(s)) = s

Front(s) == SubSeq(s, 1, Len(s) - 1)

Last(s) == s[Len(s)]

Reverse(s) == [i \in 1 .. Len(s) |-> s[Len(s) + 1 - i]]

Max(S) == CHOOSE x \in S : \A y \in S : y <= x

-----------------------------------------------------------------------------
(* Messages *)

HumanMessage(c) == [role |-> "human", content |-> c]

AIMessage(c) == [role |-> "ai", content |-> c]

SystemMessage(c) == [role |-> "system", content |-> c]

\* the SystemMessage of prompt_template
SystemInstruction ==
    SystemMessage(<< "Y", "o", "u", " ", "a", "r", "e", " ", "a", " ", "h", "e", "l", "p", "f", "u",
        "l", ",", " ", "f", "r", "i", "e", "n", "d", "l", "y", " ", "H", "e", "a", "l",
        "t", "h", " ", "a", "n", "d", " ", "W", "e", "l", "l", "n", "e", "s", "s", " ",
        "a", "s", "s", "i", "s", "t", "a", "n", "t", ".", " ", "P", "r", "o", "v", "i",
        "d", "e", " ", "a", "c", "c", "u", "r", "a", "t", "e", " ", "a", "n", "d", " ",
        "e", "m", "p", "a", "t", "h", "e", "t", "i", "c", " ", "r", "e", "s", "p", "o",
        "n", "s", "e", "s", " ", "t", "o", " ", "u", "s", "e", "r", " ", "q", "u", "e",
        "r", "i", "e", "s", "." >>)

\* f"X Error: {e}" (the X stands for the cross mark U+274C, one character)
ErrorMarker == << "X", " ", "E", "r", "r", "o", "r", ":", " " >>

\* mutant: the marker is left out of the error text
ErrorTurnPlain(e) == AIMessage(e)

ErrorTurn(e) == AIMessage(ErrorMarker \o e)

-----------------------------------------------------------------------------
(* trimmer = trim_messages(strategy="last", max_tokens=200,                  *)
(*                         token_counter=..., include_system=True)           *)

max_tokens == 200

CharsPerToken == 4

include_system == TRUE

\* token_counter: sum(len(msg.content) // 4 for msg in msgs)
RECURSIVE token_counter(_)
token_counter(msgs) ==
    IF msgs = <<>> THEN 0
    ELSE (Len(Head(msgs).content) \div CharsPerToken) + token_counter(Tail(msgs))

\* trim_messages' first-strategy core with allow_partial=False: the longest
\* prefix whose token count is within max_tokens, the empty list if none is
FirstMaxTokens(msgs) ==
    LET fits == {k \in 1 .. Len(msgs) : token_counter(SubSeq(msgs, 1, k)) <= max_tokens}
        idx  == IF fits = {} THEN 0 ELSE Max(fits)
    IN  SubSeq(msgs, 1, idx)

\* trim_messages' last strategy on a non-empty list: reverse (a leading
\* SystemMessage stays in front when include_system), keep the longest
\* prefix that fits, reverse back
LastMaxTokens(msgs) ==
    LET swapped_system == include_system /\ msgs[1].role = "system"
        reversed == IF swapped_system
                    THEN <<msgs[1]>> \o Reverse(Tail(msgs))
                    ELSE Reverse(msgs)
        kept     == FirstMaxTokens(reversed)
    IN  IF swapped_system
        THEN IF kept = <<>> THEN <<>> ELSE <<kept[1]>> \o Reverse(Tail(kept))
        ELSE Reverse(kept)

\* str(IndexError) of messages[0] on an empty list
IndexErrorText ==
    << "l", "i", "s", "t", " ", "i", "n", "d", "e", "x", " ",
       "o", "u", "t", " ", "o", "f", " ", "r", "a", "n", "g", "e" >>

\* trimmer.invoke(msgs): the outcomes the installed langchain_core can give.
\* On an empty list, releases that test isinstance(messages[0], SystemMessage)
\* without a length check raise IndexError; later ones return [].
Trimmer(msgs) ==
    IF msgs = <<>>
    THEN { [ok |-> TRUE, value |-> <<>>, error |-> <<>>],
           [ok |-> FALSE, value |-> <<>>, error |-> IndexErrorText] }
    ELSE { [ok |-> TRUE, value |-> LastMaxTokens(msgs), error |-> <<>>] }

-----------------------------------------------------------------------------
(* The remote model *)

\* the k-th token chunk of the model's reply: "He", "llo!", "He", ...
Fragment(k) == IF k % 2 = 1 THEN << "H", "e" >> ELSE << "l", "l", "o", "!" >>

\* str(e) of the exceptions model.invoke may raise
ModelErrors == { << "4", "2", "9" >> }

\* texts the user may submit: len 2 (0 tokens), len 403 (100 tokens),
\* len 804 (201 tokens: alone over the budget)
Prompts ==
    { << "h", "i" >>,
      Rep("a", 2 * max_tokens + 3),
      Rep("b", CharsPerToken * max_tokens + 4) }

-----------------------------------------------------------------------------
(* call_model and the "messages" stream of the compiled graph *)

\* mutant: every trailing AIMessage is dropped
RECURSIVE RemoveTrailingAI(_)
RemoveTrailingAI(msgs) ==
    IF msgs # <<>> /\ Last(msgs).role = "ai" THEN RemoveTrailingAI(Front(msgs)) ELSE msgs

\* lines 70-71: drop a trailing AIMessage
RemovePlaceholder(msgs) ==
    IF msgs # <<>> /\ Last(msgs).role = "ai" THEN Front(msgs) ELSE msgs

\* mutant: the trimmed window is returned in place of the history
TrimmedResult(msgs, completion) == trimmed \o <<completion>>

\* line 75: the list returned on success
SuccessResult(msgs, completion) == msgs \o <<completion>>

\* line 77: the list returned by the except clause
FailureResult(e) == state_messages \o <<ErrorTurn(e)>>

\* Whether the messages handler of stream_mode="messages" emits ret[k] when
\* the node returns ret: it emits every returned message whose id it has not
\* seen.  The last element is the new message: its id was seen iff token
\* chunks of it were streamed.  The elements before it are the objects of
\* chat_history: one whose id is None is never seen; an assigned id is seen
\* iff the handler recorded the node's input ids.
Emits(k, ret, was_streamed) ==
    IF k = Len(ret) THEN ~was_streamed ELSE ~(ids[k] /\ dedupe_inputs)

NodeOutput(ret, was_streamed) ==
    LET F[k \in 0 .. Len(ret)] ==
            IF k = 0 THEN <<>>
            ELSE IF Emits(k, ret, was_streamed) THEN Append(F[k - 1], ret[k])
            ELSE F[k - 1]
    IN  F[Len(ret)]

\* the node returns ret: the handler emits its unseen messages, giving each
\* an id
Return(ret, was_streamed) ==
    /\ returned' = <<ret>>
    /\ phase' = "Finalized"
    /\ stream' = stream \o NodeOutput(ret, was_streamed)
    /\ emitted' = emitted \o NodeOutput(ret, was_streamed)
    /\ ids' = [k \in DOMAIN ids |->
                  ids[k] \/ (k < Len(ret) /\ Emits(k, ret, was_streamed))]

\* mutant: a failure is retried
ExceptRetry(e) ==
    /\ phase' = "Invoking"
    /\ UNCHANGED << ids, stream, emitted, exc, returned >>

\* lines 76-77
Except(e) ==
    /\ exc' = <<e>>
    /\ Return(FailureResult(e), FALSE)

\* line 69
Enter ==
    /\ pc = "streaming"
    /\ phase = "Idle"
    /\ phase' = "PlaceholderCheck"
    /\ messages' = state_messages
    /\ UNCHANGED << chat_history, ids, dedupe_inputs, pc, full_response, shown,
                    stream, emitted, state_messages, trimmed, prompt_messages,
                    invocations, chunks, exc, returned >>

\* lines 70-71
CheckPlaceholder ==
    /\ phase = "PlaceholderCheck"
    /\ phase' = "Trimming"
    /\ messages' = RemovePlaceholder(messages)
    /\ UNCHANGED << chat_history, ids, dedupe_inputs, pc, full_response, shown,
                    stream, emitted, state_messages, trimmed, prompt_messages,
                    invocations, chunks, exc, returned >>

\* lines 72-73
Trim ==
    /\ phase = "Trimming"
    /\ \E o \in Trimmer(messages) :
          IF o.ok
          THEN /\ trimmed' = o.value
               /\ phase' = "Invoking"
               /\ UNCHANGED << ids, stream, emitted, exc, returned >>
          ELSE /\ Except(o.error)
               /\ UNCHANGED trimmed
    /\ UNCHANGED << chat_history, dedupe_inputs, pc, full_response, shown,
                    state_messages, messages, prompt_messages, invocations,
                    chunks >>

\* line 74: model.invoke is called; it starts streaming or raises at once
Invoke ==
    /\ phase = "Invoking"
    /\ invocations' = invocations + 1
    /\ prompt_messages' = trimmed
    /\ \E r \in {<<>>} \cup {<<e>> : e \in ModelErrors} :
          IF r = <<>>
          THEN /\ phase' = "Streaming"
               /\ UNCHANGED << ids, stream, emitted, exc, returned >>
          ELSE Except(r[1])
    /\ UNCHANGED << chat_history, dedupe_inputs, pc, full_response, shown,
                    state_messages, messages, trimmed, chunks >>

\* line 74, inside model.invoke: one token chunk arrives and the handler emits it
StreamFragment ==
    /\ phase = "Streaming"
    /\ Len(chunks) < MaxFragments
    /\ chunks' = Append(chunks, Fragment(Len(chunks) + 1))
    /\ stream' = Append(stream, AIMessage(Fragment(Len(chunks) + 1)))
    /\ emitted' = Append(emitted, AIMessage(Fragment(Len(chunks) + 1)))
    /\ UNCHANGED << chat_history, ids, dedupe_inputs, pc, full_response, shown,
                    phase, state_messages, messages, trimmed, prompt_messages,
                    invocations, exc, returned >>

\* lines 74-75: model.invoke returns the merged chunks and call_model returns
StreamEnd ==
    /\ phase = "Streaming"
    /\ Return(SuccessResult(messages, AIMessage(Concat(chunks))), chunks # <<>>)
    /\ UNCHANGED << chat_history, dedupe_inputs, pc, full_response, shown,
                    state_messages, messages, trimmed, prompt_messages,
                    invocations, chunks, exc >>

\* line 74: model.invoke raises while streaming
StreamFail ==
    /\ phase = "Streaming"
    /\ \E e \in ModelErrors : Except(e)
    /\ UNCHANGED << chat_history, dedupe_inputs, pc, full_response, shown,
                    state_messages, messages, trimmed, prompt_messages,
                    invocations, chunks >>

CallModel == Enter \/ CheckPlaceholder \/ Trim \/ Invoke \/ StreamFragment
             \/ StreamEnd \/ StreamFail

-----------------------------------------------------------------------------
(* The chat handler *)

\* mutant: the chunk overwrites the accumulator
Overwrite(full, chunk) == chunk.content

\* line 106
Accumulate(full, chunk) == full \o chunk.content

\* mutant: an empty response is not recorded
AppendResponseIfAny(history, full) ==
    IF full = <<>> THEN history ELSE Append(history, AIMessage(full))

\* line 109
AppendResponse(history, full) == Append(history, AIMessage(full))

\* lines 93-104: the user submits prompt; the graph is called on the history
Submit ==
    /\ pc = "idle"
    /\ Len(chat_history) < 2 * MaxTurns
    /\ \E prompt \in Prompts :
          /\ chat_history' = Append(chat_history, HumanMessage(prompt))
          /\ state_messages' = Append(chat_history, HumanMessage(prompt))
    /\ ids' = Append(ids, FALSE)
    /\ pc' = "streaming"
    /\ full_response' = <<>>
    /\ shown' = <<>>
    /\ stream' = <<>>
    /\ emitted' = <<>>
    /\ phase' = "Idle"
    /\ messages' = <<>>
    /\ trimmed' = <<>>
    /\ prompt_messages' = <<>>
    /\ invocations' = 0
    /\ chunks' = <<>>
    /\ exc' = <<>>
    /\ returned' = <<>>
    /\ UNCHANGED dedupe_inputs

\* lines 104-107: one iteration of the for loop
Consume ==
    /\ pc = "streaming"
    /\ stream # <<>>
    /\ stream' = Tail(stream)
    /\ IF Head(stream).role = "ai"
       THEN /\ full_response' = Accumulate(full_response, Head(stream))
            /\ shown' = Append(shown, Accumulate(full_response, Head(stream)))
       ELSE UNCHANGED << full_response, shown >>
    /\ UNCHANGED << chat_history, ids, dedupe_inputs, pc, emitted, phase,
                    state_messages, messages, trimmed, prompt_messages,
                    invocations, chunks, exc, returned >>

\* line 109: the stream is exhausted
Finish ==
    /\ pc = "streaming"
    /\ phase = "Finalized"
    /\ stream = <<>>
    /\ chat_history' = AppendResponse(chat_history, full_response)
    /\ ids' = [k \in 1 .. Len(chat_history') |-> IF k <= Len(ids) THEN ids[k] ELSE FALSE]
    /\ pc' = "idle"
    /\ UNCHANGED << dedupe_inputs, full_response, shown, stream, emitted, phase,
                    state_messages, messages, trimmed, prompt_messages,
                    invocations, chunks, exc, returned >>

-----------------------------------------------------------------------------
(* Specifications *)

\* lines 33-34: a new session
Init ==
    /\ chat_history = <<>>
    /\ ids = <<>>
    /\ dedupe_inputs \in BOOLEAN
    /\ pc = "idle"
    /\ full_response = <<>>
    /\ shown = <<>>
    /\ stream = <<>>
    /\ emitted = <<>>
    /\ phase = "Idle"
    /\ state_messages = <<>>
    /\ messages = <<>>
    /\ trimmed = <<>>
    /\ prompt_messages = <<>>
    /\ invocations = 0
    /\ chunks = <<>>
    /\ exc = <<>>
    /\ returned = <<>>

Next == Submit \/ CallModel \/ Consume \/ Finish

Spec == Init /\ [][Next]_vars

\* the histories handed directly to the graph
HistoryContents == Prompts

Turns == { [role |-> r, content |-> c] : r \in {"human", "ai"}, c \in HistoryContents }

RECURSIVE SeqsUpTo(_, _)
SeqsUpTo(S, n) ==
    IF n = 0 THEN { <<>> }
    ELSE LET shorter == SeqsUpTo(S, n - 1)
         IN  shorter \cup { Append(s, x) : s \in {t \in shorter : Len(t) = n - 1}, x \in S }

\* line 104 reached with any history in the session: the graph has just been
\* called on it
InitCall ==
    /\ chat_history \in SeqsUpTo(Turns, MaxHist)
    /\ ids \in { [k \in 1 .. Len(chat_history) |-> b] : b \in BOOLEAN }
    /\ dedupe_inputs \in BOOLEAN
    /\ pc = "streaming"
    /\ full_response = <<>>
    /\ shown = <<>>
    /\ stream = <<>>
    /\ emitted = <<>>
    /\ phase = "Idle"
    /\ state_messages = chat_history
    /\ messages = <<>>
    /\ trimmed = <<>>
    /\ prompt_messages = <<>>
    /\ invocations = 0
    /\ chunks = <<>>
    /\ exc = <<>>
    /\ returned = <<>>

NextCall == CallModel \/ Consume \/ Finish

CallSpec == InitCall /\ [][NextCall]_vars

\* call_model's statements run one after the other, and model.invoke ends
\* (it returns or raises) after finitely many chunks
FairCallSpec == CallSpec /\ WF_vars(CallModel)

-----------------------------------------------------------------------------
(* Properties *)

\* the cost of a turn as the specification defines it: ceil(len(content) / 4)
CeilCost(m) == (Len(m.content) + CharsPerToken - 1) \div CharsPerToken

RECURSIVE TurnsCost(_)
TurnsCost(w) ==
    IF w = <<>> THEN 0
    ELSE (IF Head(w).role = "system" THEN 0 ELSE CeilCost(Head(w))) + TurnsCost(Tail(w))

\* total cost of a window, the fixed system instruction counted once
WindowCost(w) == CeilCost(SystemInstruction) + TurnsCost(w)

\* the text of the AI chunks of a sequence of chunks, in order
RECURSIVE AIText(_)
AIText(cs) ==
    IF cs = <<>> THEN <<>>
    ELSE (IF Head(cs).role = "ai" THEN Head(cs).content ELSE <<>>) \o AIText(Tail(cs))

EndsWithAI(h) == h # <<>> /\ Last(h).role = "ai"

\* C1: the window handed to the model costs at most 200 with the system
\* instruction counted (cost of a turn = ceil(len/4)), unless the system
\* instruction plus the most recent turn already exceeds 200, and then the
\* window is exactly the system instruction plus that turn.
C1_WindowWithinBudget ==
    (invocations > 0 /\ messages # <<>>) =>
        IF WindowCost(<<Last(messages)>>) > max_tokens
        THEN prompt_messages = <<SystemInstruction, Last(messages)>>
        ELSE WindowCost(prompt_messages) <= max_tokens

\* C2: when the most recent turn alone costs more than the budget, the window
\* passed to the model is [system instruction, that turn], never empty.
C2_NeverEmptyWindow ==
    (invocations > 0 /\ messages # <<>> /\ CeilCost(Last(messages)) > max_tokens) =>
        /\ prompt_messages # <<>>
        /\ prompt_messages = <<SystemInstruction, Last(messages)>>

\* C3: the prompt passed to model.invoke begins with the system instruction,
\* followed only by a trailing run of the history's turns in their order.
C3_SystemInstructionFirst ==
    invocations > 0 =>
        /\ prompt_messages # <<>>
        /\ Head(prompt_messages) = SystemInstruction
        /\ IsSuffix(Tail(prompt_messages), messages)

\* C4: when trimming or the model call raises, the exchange still ends, with
\* exactly one Assistant turn appended to chat_history whose content contains
\* "Error: " followed by the failure's details.
C4_FailSoft ==
    exc # <<>> =>
        /\ phase = "Finalized"
        /\ returned # <<>>
        /\ pc = "streaming" => (stream # <<>> \/ ENABLED Finish)
        /\ pc = "idle" =>
              /\ chat_history = Append(state_messages, Last(chat_history))
              /\ Last(chat_history).role = "ai"
              /\ Contains(Last(chat_history).content,
                          << "E", "r", "r", "o", "r", ":", " " >> \o exc[1])

C4_Witness ==
    /\ pc = "idle"
    /\ exc # <<>>
    /\ chunks # <<>>
    /\ state_messages # <<>>

\* C5: for a history ending in an Assistant turn, exactly that one turn is
\* removed before trimming, and the window is taken from what remains.
C5_OnePlaceholderRemoved ==
    (EndsWithAI(state_messages) /\ phase \in {"Trimming", "Invoking", "Streaming", "Finalized"}) =>
        /\ messages = Front(state_messages)
        /\ IsSuffix(trimmed, Front(state_messages))
        /\ invocations > 0 => IsSuffix(prompt_messages, Front(state_messages))

C5_Witness ==
    /\ Len(state_messages) >= 2
    /\ state_messages[Len(state_messages)].role = "ai"
    /\ state_messages[Len(state_messages) - 1].role = "ai"
    /\ phase = "Streaming"
    /\ prompt_messages # <<>>

C7_HistoryPreserved ==
    (state_messages # <<>> /\ ~EndsWithAI(state_messages)) =>
        /\ IsPrefix(state_messages, chat_history)
        /\ returned # <<>> =>
              /\ IsPrefix(state_messages, returned[1])
              /\ Len(returned[1]) = Len(state_messages) + 1
        /\ pc = "idle" => Len(chat_history) = Len(state_messages) + 1

C7_Witness ==
    /\ state_messages # <<>>
    /\ ~EndsWithAI(state_messages)
    /\ pc = "idle"
    /\ exc = <<>>
    /\ Len(prompt_messages) < Len(state_messages)
    /\ prompt_messages # <<>>

PhaseOrder == << "Idle", "PlaceholderCheck", "Trimming", "Invoking", "Streaming", "Finalized" >>

C8_Step ==
    /\ invocations' <= 1
    /\ phase' # phase =>
          \/ /\ \E i \in 1 .. 5 : phase = PhaseOrder[i] /\ phase' = PhaseOrder[i + 1]
             /\ exc' = <<>>
          \/ /\ phase' = "Finalized"
             /\ exc' # <<>>
             /\ returned' # <<>>
             /\ Last(returned'[1]).role = "ai"
             /\ IsPrefix(ErrorMarker, Last(returned'[1]).content)

\* C8: an invocation moves through Idle, PlaceholderCheck, Trimming, Invoking,
\* Streaming, Finalized in that order and always reaches Finalized; the model
\* is invoked at most once; a failure goes directly to Finalized with an
\* error-content turn.
C8_StateMachine ==
    /\ [][C8_Step]_vars
    /\ <>(phase = "Finalized")

C8_Witness ==
    /\ phase = "Finalized"
    /\ invocations = 1
    /\ exc = <<>>
    /\ chunks # <<>>

\* C9: on the success path and on the failure path, the returned list is the
\* input history with a trailing Assistant placeholder removed, followed by
\* exactly one new Assistant turn.
C9_ReturnShape ==
    returned # <<>> =>
        /\ Front(returned[1]) = RemovePlaceholder(state_messages)
        /\ Last(returned[1]).role = "ai"

Alternates(h) == \A i \in 1 .. Len(h) : h[i].role = IF i % 2 = 1 THEN "human" ELSE "ai"

C10_State ==
    /\ Alternates(chat_history)
    /\ pc = "idle" => Len(chat_history) % 2 = 0
    /\ pc = "streaming" =>
          /\ Len(chat_history) % 2 = 1
          /\ state_messages = chat_history
          /\ Last(state_messages).role = "human"
          /\ phase \in {"Trimming", "Invoking", "Streaming", "Finalized"} =>
                messages = state_messages

\* C10: chat_history is only ever appended to, two turns per submission,
\* alternating Human, Assistant from a Human turn; so every history the chat
\* handler passes to the graph ends with a Human turn and no placeholder is
\* ever removed.
C10_AlternatingAppendOnly ==
    /\ []C10_State
    /\ [][IsPrefix(chat_history, chat_history') /\ Len(chat_history') <= Len(chat_history) + 1]_vars

C10_Witness ==
    /\ pc = "idle"
    /\ Len(chat_history) = 4
    /\ chat_history[2].content = <<>>

=============================================================================
